---- MODULE Spec2Model ----
(***************************************************************************)
(* The TP / ICAP price WebSocket transport (generateTransport, updateTTL)  *)
(* together with the parts of the adapter framework it drives: the         *)
(* connection, the subscription set and the response cache.                *)
(*                                                                         *)
(* Strings are sequences of one-character strings, so that the fixed       *)
(* offsets of `rec` are sliced exactly as String.prototype.slice does.     *)
(* Prices are integers counting units of 0.00001; the inputs are multiples *)
(* of 10 (four decimals), so a decimal midpoint is again an integer.       *)
(* An optional field is a set: {} when absent, {v} when it holds v.        *)
(***************************************************************************)
EXTENDS Integers, Sequences, FiniteSets, TLC

VARIABLES
    now,          \* Date.now(), in model time units
    created,      \* transports made by generateTransport in this process
    inputs,       \* frames the provider may send in this behaviour
    conn,         \* per transport: "closed", "authenticating", "ready"
    sent,         \* per transport: directives sent on the current connection
    subscribed,   \* per transport: tuples the streaming loop has subscribed
    registry,     \* per transport: subscriptionSet
    established,  \* module-level providerDataStreamEstablishedUnixMs
    pending,      \* per transport: updateTTL calls awaiting getAll()
    cache,        \* responseCache.cache: key -> [val, exp]
    last,         \* the frame `message` has just handled and what it returned;
                  \* NoLast after any other step
    ackOnConn,    \* history: an auth-ack was received on the current connection
    readyStamp,   \* history: Date.now() at the ack that resolved open()
    ackStamp,     \* history: Date.now() at the transport's latest auth-ack
    touchAge,     \* history: time since the last tick write / setTTL call per key
    beatAge,      \* history: time since the last tick write / heartbeat per key
    bal,          \* the balance endpoint: one call of execute and its promises
    proc          \* the process: running or not, and what became of a refresh
                  \* that failed

vars == <<now, created, inputs, conn, sent, subscribed, registry, established,
          pending, cache, last, ackOnConn, readyStamp, ackStamp, touchAge, beatAge, bal,
          proc>>

----------------------------------------------------------------------------
(* Bounds of the model *)

MaxTime == 2
MaxPending == 1
\* adapterSettings.CACHE_MAX_AGE, scaled to model time units
CACHE_MAX_AGE == 2

Transports == {1, 2}

Min(a, b) == IF a < b THEN a ELSE b

----------------------------------------------------------------------------
(* Strings *)

\* String.prototype.slice(a, b) for 0 <= a <= b
Slice(s, a, b) == SubSeq(s, a + 1, Min(b, Len(s)))

\* String.prototype.includes(pat)
Includes(s, pat) ==
    \E i \in 1..(Len(s) - Len(pat) + 1) : SubSeq(s, i, i + Len(pat) - 1) = pat

HBHHH == <<"H", "B", "H", "H", "H">>
FXSPT == <<"F", "X", "S", "P", "T">>
EUR == <<"E", "U", "R">>
GBP == <<"G", "B", "P">>
USD == <<"U", "S", "D">>
GBL == <<"G", "B", "L">>
TP == <<"T", "P">>
IC == <<"I", "C">>
RecTail == <<".", "B", "I", "L", ".", "Q", "T", "E", ".", "R", "T", "M", "!">>

\* rec of a price message, as in "FXSPTEURUSDSPT:GBL.BIL.QTE.RTM!IC"
PriceRec(base, quote, source, stream) ==
    FXSPT \o base \o quote \o <<"S", "P", "T", ":">> \o source \o RecTail \o stream

\* rec of a heartbeat message, "HBHHH:GBL.BIL.QTE.RTM!TP"
HeartbeatRec(stream) == HBHHH \o <<":">> \o GBL \o RecTail \o stream

\* generatePriceOptions.streamName of each transport
streamName(t) == IF t = 1 THEN TP ELSE IC

----------------------------------------------------------------------------
(* Frames (WsMessage) *)

NoFvs == [present |-> FALSE, BID |-> {}, ASK |-> {}, MID_PRICE |-> {}]
NoRec == [kind |-> "absent", str |-> <<>>]
StrRec(s) == [kind |-> "string", str |-> s]
\* a rec that is present and truthy but no string (a number, an object)
NumRec == [kind |-> "number", str |-> <<>>]

BidValues == {110000, 110010}
AskValues == {110030}
MidValues == {0, 110040}

FvsValues ==
    {NoFvs} \cup
    [present : {TRUE},
     BID : {{}} \cup {{v} : v \in BidValues},
     ASK : {{}} \cup {{v} : v \in AskValues},
     MID_PRICE : {{}} \cup {{v} : v \in MidValues}]

\* a rec that holds the heartbeat marker but keeps the layout of a price rec
HBH == <<"H", "B", "H">>
HHD == <<"H", "H", "D">>

RecStrings ==
    {PriceRec(EUR, USD, GBL, TP), PriceRec(GBP, USD, GBL, TP),
     PriceRec(EUR, USD, GBL, IC), PriceRec(HBH, HHD, GBL, TP),
     HeartbeatRec(TP), HeartbeatRec(IC), <<>>}

RecValues == {NoRec, NumRec} \cup {StrRec(s) : s \in RecStrings}

\* msg "absent": the frame has no msg field; sta 0: any status other than 1
Frames == [msg : {"absent", "auth", "sub"}, sta : {0, 1}, rec : RecValues, fvs : FvsValues]

Frame(m, st, r, f) == [msg |-> m, sta |-> st, rec |-> r, fvs |-> f]
Fvs(b, a, m) == [present |-> TRUE, BID |-> b, ASK |-> a, MID_PRICE |-> m]

\* the frames of the system specification: acks, heartbeats, ticks, noise
SysFrames ==
    {Frame("auth", 1, NoRec, NoFvs),
     Frame("auth", 0, NoRec, NoFvs),
     Frame("sub", 1, StrRec(HeartbeatRec(TP)), Fvs({}, {}, {})),
     Frame("sub", 1, StrRec(HeartbeatRec(IC)), Fvs({}, {}, {})),
     Frame("sub", 1, StrRec(PriceRec(EUR, USD, GBL, TP)), Fvs({110000}, {110030}, {})),
     Frame("sub", 1, StrRec(PriceRec(GBP, USD, GBL, TP)), Fvs({110010}, {110030}, {})),
     Frame("sub", 1, StrRec(PriceRec(EUR, USD, GBL, IC)), Fvs({110000}, {110030}, {}))}

----------------------------------------------------------------------------
(* The message handler, as a function of the frame *)

isNum(i) == i # {}

\* JavaScript truthiness of an optional number
Truthy(i) == i # {} /\ i # {0}

Val(i) == CHOOSE v \in i : TRUE

\* !rec
RecFalsy(rec) == rec.kind = "absent" \/ (rec.kind = "string" /\ rec.str = <<>>)

\* faulty variant: the sum is not halved
MidpointNotHalved(ASK, BID) == Val(ASK) + Val(BID)

\* new Decimal(ASK).add(BID).div(2).toNumber(), on units of 0.00001
Midpoint(ASK, BID) == (Val(ASK) + Val(BID)) \div 2

\* faulty variant: the marker alone makes a heartbeat, whatever the stream
IsHeartbeatAnyStream(t, str) == Includes(str, HBHHH)

\* the heartbeat test of the handler
IsHeartbeat(t, str) == Includes(str, HBHHH) /\ Slice(str, 22, 24) = streamName(t)

\* faulty variant: the stream code is only required to be there
StreamAcceptedUnfiltered(t, str) == Len(str) > 31

\* the stream filter of the handler
StreamAccepted(t, str) == Slice(str, 31, 34) = streamName(t)

\* the price-field test of the handler (TRUE: the message goes on)
HasPrice(fvs) == ~(~isNum(fvs.MID_PRICE) /\ ~(isNum(fvs.BID) /\ isNum(fvs.ASK)))

\* new Decimal(undefined) and Decimal.add(undefined) raise a DecimalError
ResultThrows(fvs) == ~Truthy(fvs.MID_PRICE) /\ (fvs.ASK = {} \/ fvs.BID = {})

\* MID_PRICE || new Decimal(ASK).add(BID).div(2).toNumber()
Result(fvs) ==
    IF Truthy(fvs.MID_PRICE) THEN Val(fvs.MID_PRICE) ELSE Midpoint(fvs.ASK, fvs.BID)

Returned(ticks, refresh) == [kind |-> "return", ticks |-> ticks, refresh |-> refresh]
Thrown == [kind |-> "throw", ticks |-> <<>>, refresh |-> FALSE]

\* faulty variant: the heartbeat rule comes before the fvs / rec / sta rule
decodeHeartbeatFirst(t, m) ==
    IF m.msg = "absent" \/ m.msg = "auth" THEN "ignore"
    ELSE IF m.rec.kind = "string" /\ IsHeartbeat(t, m.rec.str) THEN "heartbeat"
    ELSE IF ~m.fvs.present \/ RecFalsy(m.rec) \/ m.sta # 1 THEN "ignore"
    ELSE IF m.rec.kind # "string" THEN "throw"
    ELSE IF ~StreamAccepted(t, m.rec.str) THEN "ignore"
    ELSE IF ~HasPrice(m.fvs) THEN "ignore"
    ELSE IF ResultThrows(m.fvs) THEN "throw"
    ELSE "tick"

\* what the handler does with frame m, before any timestamp is attached:
\* "ignore" (return []), "heartbeat" (updateTTL, return []), "tick", "throw"
decode(t, m) ==
    IF m.msg = "absent" \/ m.msg = "auth" THEN "ignore"
    ELSE IF ~m.fvs.present \/ RecFalsy(m.rec) \/ m.sta # 1 THEN "ignore"
    ELSE IF m.rec.kind # "string" THEN "throw"  \* rec.includes is not a function
    ELSE IF IsHeartbeat(t, m.rec.str) THEN "heartbeat"
    ELSE IF ~StreamAccepted(t, m.rec.str) THEN "ignore"
    ELSE IF ~HasPrice(m.fvs) THEN "ignore"
    ELSE IF ResultThrows(m.fvs) THEN "throw"
    ELSE "tick"

\* decode, tabulated over the frames
DecodeTable == [t \in Transports |-> [m \in Frames |-> decode(t, m)]]

\* the ProviderResult the handler returns for a price message
TickOf(str, fvs, received, est) ==
    [params |-> [base |-> Slice(str, 5, 8), quote |-> Slice(str, 8, 11),
                 source |-> Slice(str, 15, 18)],
     result |-> Result(fvs),
     providerDataReceivedUnixMs |-> received,
     providerDataStreamEstablishedUnixMs |-> est]

\* handlers.message of transport t: what it returns for frame m, whether it
\* starts updateTTL (refresh), or that it throws
message(t, m, received, est) ==
    CASE DecodeTable[t][m] = "ignore" -> Returned(<<>>, FALSE)
      [] DecodeTable[t][m] = "heartbeat" -> Returned(<<>>, TRUE)
      [] DecodeTable[t][m] = "throw" -> Thrown
      [] DecodeTable[t][m] = "tick" ->
            Returned(<<TickOf(m.rec.str, m.fvs, received, est)>>, FALSE)

----------------------------------------------------------------------------
(* The open handler *)

\* faulty variant: the status of the auth frame is not looked at
AuthAckAnyStatus(m) == m.msg = "auth"

\* the test of the message listener that open() adds to the connection
AuthAck(m) == m.msg = "auth" /\ m.sta = 1

\* the auth directive open() sends (credentials left out)
AuthDirective == [msg |-> "auth", mode |-> "broadcast", streamId |-> <<>>]

\* faulty variant: the config object has a subscribeMessage builder
WithSubscribeBuilder == TRUE

\* the transport's config object holds url and handlers and no builders:
\* there is no subscribeMessage to build a subscribe directive with
HasSubscribeBuilder == FALSE

SubDirective(p) ==
    [msg |-> "sub", mode |-> "", streamId |-> PriceRec(p.base, p.quote, p.source, <<>>)]

----------------------------------------------------------------------------
(* Subscription set and response cache *)

Param(b, q, s) == [base |-> b, quote |-> q, source |-> s]

\* the parameter tuples callers may request
Params == {Param(EUR, USD, GBL), Param(GBP, USD, GBL)}

\* the parameter tuples a tick may carry
TickParams == Params \cup {Param(HBH, HHD, GBL)}

transportName(t) == IF t = 1 THEN <<"t", "p">> ELSE <<"i", "c">>

\* calculateCacheKey: a digest of the transport's identity and the tuple
calculateCacheKey(t, p) ==
    transportName(t) \o <<"-">> \o p.base \o <<"/">> \o p.quote \o <<"/">> \o p.source

Keys == {calculateCacheKey(t, p) : t \in Transports, p \in TickParams}

KeysOf(t, ps) == {calculateCacheKey(t, p) : p \in ps}

NoEntry == [val |-> {}, exp |-> 0]

\* cache.set(key, value, ttl)
cacheSet(c, key, value, ttl, nowMs) ==
    [c EXCEPT ![key] = [val |-> {value}, exp |-> nowMs + ttl]]

\* cache.setTTL(key, ttl): extends an existing entry, creates none
setTTL(c, key, ttl, nowMs) ==
    IF c[key].val # {} /\ c[key].exp > nowMs
    THEN [c EXCEPT ![key].exp = nowMs + ttl]
    ELSE c

\* the entries of c that have not expired at nowMs
Unexpired(c, nowMs) ==
    [k \in Keys |-> IF c[k].val # {} /\ c[k].exp > nowMs THEN c[k] ELSE NoEntry]

\* responseCache.write(transportName, results), as the transport calls it
\* with what the message handler returned
RECURSIVE writeResults(_, _, _, _)
writeResults(c, t, ticks, nowMs) ==
    IF ticks = <<>> THEN c
    ELSE writeResults(
             cacheSet(c, calculateCacheKey(t, Head(ticks).params),
                      Head(ticks).result, CACHE_MAX_AGE, nowMs),
             t, Tail(ticks), nowMs)

\* sSet.forEach of updateTTL: setTTL on the key of every entry of sSet
RECURSIVE forEachSetTTL(_, _, _, _, _)
forEachSetTTL(c, t, sSet, ttl, nowMs) ==
    IF sSet = {} THEN c
    ELSE LET param == CHOOSE p \in sSet : TRUE
         IN forEachSetTTL(setTTL(c, calculateCacheKey(t, param), ttl, nowMs),
                          t, sSet \ {param}, ttl, nowMs)

\* faulty variant: only one entry of sSet is refreshed
updateTTLOneEntry(c, t, sSet, nowMs) ==
    IF sSet = {} THEN c
    ELSE setTTL(c, calculateCacheKey(t, CHOOSE p \in sSet : TRUE), CACHE_MAX_AGE, nowMs)

\* faulty variant: the refresh writes the entries instead of extending them
updateTTLWriting(c, t, sSet, nowMs) ==
    [k \in Keys |-> IF k \in KeysOf(t, sSet)
                    THEN [val |-> {0}, exp |-> nowMs + CACHE_MAX_AGE]
                    ELSE c[k]]

\* faulty variant: the key is computed with another transport's name
updateTTLOtherName(c, t, sSet, nowMs) ==
    forEachSetTTL(c, IF t = 1 THEN 2 ELSE 1, sSet, CACHE_MAX_AGE, nowMs)

\* faulty variant: the refresh extends by less than CACHE_MAX_AGE
updateTTLShort(c, t, sSet, nowMs) == forEachSetTTL(c, t, sSet, CACHE_MAX_AGE - 1, nowMs)

\* updateTTL after its await: sSet is what subscriptionSet.getAll() gave
updateTTL(c, t, sSet, nowMs) == forEachSetTTL(c, t, sSet, CACHE_MAX_AGE, nowMs)

----------------------------------------------------------------------------
(* The balance endpoint: getBalances, reduceResponse, execute *)

\* longest input list of a call
MaxBatch == 2

WARNING_NO_OPERATION_COIN == "No Operation: unsupported coin"
WARNING_NO_OPERATION_TESTNET == "No Operation: 'testnet' is only supported on 'eth'"
WARNING_NO_OPERATION_CHAIN ==
    "No Operation: invalid chain parameter, must be one of 'mainnet' or 'testnet'"
WARNING_NO_OPERATION_MISSING_ADDRESS == "No Operation: address param is missing"

\* an Address of the input list; a field that is absent (or falsy) is ""
Address(a, c, ch) == [address |-> a, coin |-> c, chain |-> ch]

Addresses ==
    [address : {"", "a1"}, coin : {"", "btc", "eth", "doge"},
     chain : {"", "testnet", "devnet"}]

\* payload.value of the upstream responses
BalanceValues == {3, 8}

\* BLOCKCHAINS: the vendor's network name of each supported coin
BLOCKCHAINS == [btc |-> "bitcoin", eth |-> "ethereum"]

\* Requester.toVendorName(coin, BLOCKCHAINS)
toVendorName(coin) == BLOCKCHAINS[coin]

isCoinType(coin) == coin \in DOMAIN BLOCKCHAINS

isChainType(chain) == chain \in {"mainnet", "testnet"}

NoHeader == <<>>

\* faulty variant: 'testnet' is not refused for the other networks
getBlockchainHeaderAnyTestnet(chain, coin) ==
    LET network == toVendorName(coin)
    IN IF chain = "testnet"
       THEN IF network = "ethereum"
            THEN [kind |-> "return", header |-> <<"ethereum", "rinkeby">>, error |-> ""]
            ELSE [kind |-> "return", header |-> <<network, "testnet">>, error |-> ""]
       ELSE [kind |-> "return", header |-> <<network, "mainnet">>, error |-> ""]

\* getBlockchainHeader: the x-amberdata-blockchain-id header, or a throw
getBlockchainHeader(chain, coin) ==
    LET network == toVendorName(coin)
    IN IF chain = "testnet"
       THEN IF network = "ethereum"
            THEN [kind |-> "return", header |-> <<"ethereum", "rinkeby">>, error |-> ""]
            ELSE [kind |-> "throw", header |-> NoHeader,
                  error |-> WARNING_NO_OPERATION_TESTNET]
       ELSE [kind |-> "return", header |-> <<network, "mainnet">>, error |-> ""]

\* { ...addr, balance }
Account(addr, balance) ==
    [address |-> addr.address, coin |-> addr.coin, chain |-> addr.chain,
     balance |-> balance]

\* a ResponseWithResult; response {} is null, warning "" is no warning field
Item(response, result, warning) ==
    [response |-> response, result |-> result, warning |-> warning]

NoItem == Item({}, Account(Address("", "", ""), 0), "")

\* the promise of one callback of addresses.map
Fulfilled(item) ==
    [st |-> "fulfilled", item |-> item, addr |-> Address("", "", ""),
     header |-> NoHeader, error |-> ""]
Rejected(error) ==
    [st |-> "rejected", item |-> NoItem, addr |-> Address("", "", ""),
     header |-> NoHeader, error |-> error]
\* awaiting Requester.request; addr is the entry with its defaults filled in
Requesting(addr, header) ==
    [st |-> "pending", item |-> NoItem, addr |-> addr, header |-> header, error |-> ""]

\* { ...warnedResponse, warning }: the entry as it came, balance 0, no response
warnedResponse(addr, warning) == Fulfilled(Item({}, Account(addr, 0), warning))

\* faulty variant: a missing coin is not defaulted to 'btc'
getBalancesCallbackNoDefault(addr) ==
    LET chain == IF addr.chain = "" THEN "mainnet" ELSE addr.chain
    IN IF addr.address = ""
       THEN warnedResponse(addr, WARNING_NO_OPERATION_MISSING_ADDRESS)
       ELSE IF ~isCoinType(addr.coin)
       THEN warnedResponse(addr, WARNING_NO_OPERATION_COIN)
       ELSE IF ~isChainType(chain)
       THEN warnedResponse(addr, WARNING_NO_OPERATION_CHAIN)
       ELSE IF getBlockchainHeader(chain, addr.coin).kind = "throw"
       THEN Rejected(getBlockchainHeader(chain, addr.coin).error)
       ELSE Requesting(Address(addr.address, addr.coin, chain),
                       getBlockchainHeader(chain, addr.coin).header)

\* the callback of addresses.map, up to its await of Requester.request
getBalancesCallback(addr) ==
    LET coin == IF addr.coin = "" THEN "btc" ELSE addr.coin
        chain == IF addr.chain = "" THEN "mainnet" ELSE addr.chain
    IN IF addr.address = ""
       THEN warnedResponse(addr, WARNING_NO_OPERATION_MISSING_ADDRESS)
       ELSE IF ~isCoinType(coin)
       THEN warnedResponse(addr, WARNING_NO_OPERATION_COIN)
       ELSE IF ~isChainType(chain)
       THEN warnedResponse(addr, WARNING_NO_OPERATION_CHAIN)
       ELSE IF getBlockchainHeader(chain, coin).kind = "throw"
       THEN Rejected(getBlockchainHeader(chain, coin).error)
       ELSE Requesting(Address(addr.address, coin, chain),
                       getBlockchainHeader(chain, coin).header)

\* an outcome of Requester.request: a response with payload.value, or a failure
Responses == [ok : {TRUE}, value : BalanceValues] \cup {[ok |-> FALSE, value |-> 0]}

\* the callback after its await
getBalancesResume(promise, r) ==
    IF r.ok
    THEN Fulfilled(Item({r.value}, Account(promise.addr, r.value), ""))
    ELSE Rejected("request failed")

\* faulty variant: each item is put in front of the accumulated ones
reduceResponseReversed(responses) ==
    [data |-> [responses |-> [i \in 1..Len(responses) |->
                                responses[Len(responses) + 1 - i].response],
               result |-> [i \in 1..Len(responses) |->
                             responses[Len(responses) + 1 - i].result]],
     status |-> 200]

\* reduceResponse: the responses and the results, in the order of the list
reduceResponse(responses) ==
    [data |-> [responses |-> [i \in 1..Len(responses) |-> responses[i].response],
               result |-> [i \in 1..Len(responses) |-> responses[i].result]],
     status |-> 200]

\* request.data at dataPath: missing, something that is no array, or a list
InputList(l) == [kind |-> "array", list |-> l]

RECURSIVE ListsUpTo(_)
ListsUpTo(n) ==
    IF n = 0 THEN {<<>>}
    ELSE ListsUpTo(n - 1) \cup
         {Append(l, a) : l \in {x \in ListsUpTo(n - 1) : Len(x) = n - 1}, a \in Addresses}

Inputs ==
    {[kind |-> "missing", list |-> <<>>], [kind |-> "notArray", list |-> <<>>]}
    \cup {InputList(l) : l \in ListsUpTo(MaxBatch)}

NoData == [responses |-> <<>>, result |-> <<>>]

\* what execute gave: nothing yet, the reduced response, or a throw
NoOut == [kind |-> "none", status |-> 0, data |-> NoData, error |-> ""]
ReturnedData(r) == [kind |-> "return", status |-> r.status, data |-> r.data, error |-> ""]
ThrownError(status, error) ==
    [kind |-> "throw", status |-> status, data |-> NoData, error |-> error]

\* no call of execute
NoBatch ==
    [phase |-> "idle", input |-> InputList(<<>>), promises |-> <<>>, requested |-> {},
     out |-> NoOut]

----------------------------------------------------------------------------
(* State machine *)

NoFrame == Frame("absent", 0, NoRec, NoFvs)

\* no frame has just been handled (transport 0 is none)
NoLast == [t |-> 0, frame |-> NoFrame, out |-> Returned(<<>>, FALSE)]

Capped(n) == Min(n, CACHE_MAX_AGE)

\* the process runs, no refresh has failed and no failure has been logged
ProcessUp == [alive |-> TRUE, failedRefresh |-> FALSE, logged |-> FALSE]

TickKeys(t, ticks) == {calculateCacheKey(t, ticks[i].params) : i \in 1..Len(ticks)}

InitCommon ==
    /\ now = 0
    /\ sent = [t \in Transports |-> {}]
    /\ subscribed = [t \in Transports |-> {}]
    /\ registry = [t \in Transports |-> {}]
    /\ pending = [t \in Transports |-> <<>>]
    /\ cache = [k \in Keys |-> NoEntry]
    /\ last = NoLast
    /\ touchAge = [k \in Keys |-> CACHE_MAX_AGE]
    /\ beatAge = [k \in Keys |-> CACHE_MAX_AGE]
    /\ proc = ProcessUp

Init ==
    /\ InitCommon
    /\ bal = NoBatch
    /\ created = {1}
    /\ inputs = SysFrames
    /\ conn = [t \in Transports |-> "closed"]
    /\ established = {}
    /\ ackOnConn = [t \in Transports |-> FALSE]
    /\ readyStamp = [t \in Transports |-> {}]
    /\ ackStamp = [t \in Transports |-> {}]

\* a caller's request adds a tuple to the subscription set
Register(t, p) ==
    /\ t \in created
    /\ p \notin registry[t]
    /\ registry' = [registry EXCEPT ![t] = @ \cup {p}]
    /\ last' = NoLast
    /\ UNCHANGED <<now, created, inputs, conn, sent, subscribed, established, pending,
                   cache, ackOnConn, readyStamp, touchAge, beatAge, bal, proc,
                   ackStamp>>

\* the transport creates a connection and runs handlers.open on it
Open(t) ==
    /\ t \in created
    /\ conn[t] = "closed"
    /\ conn' = [conn EXCEPT ![t] = "authenticating"]
    /\ sent' = [sent EXCEPT ![t] = {AuthDirective}]
    /\ last' = NoLast
    /\ UNCHANGED <<now, created, inputs, subscribed, registry, established, pending,
                   cache, ackOnConn, readyStamp, touchAge, beatAge, bal, proc,
                   ackStamp>>

\* a frame arrives on the connection of t: the message handler runs on a
\* ready connection, then the listener that open() added
Receive(t, m) ==
    /\ t \in created
    /\ m \in inputs
    /\ conn[t] # "closed"
    /\ \E handled \in {conn[t] = "ready"}, out \in {message(t, m, now, established)} :
       \E refresh \in {handled /\ out.refresh},
          ticks \in {IF handled THEN out.ticks ELSE <<>>} :
       \E written \in {TickKeys(t, ticks)},
          beaten \in {IF refresh THEN KeysOf(t, registry[t]) ELSE {}} :
          /\ refresh => Len(pending[t]) < MaxPending
          /\ last' = IF handled THEN [t |-> t, frame |-> m, out |-> out] ELSE NoLast
          /\ cache' = writeResults(cache, t, ticks, now)
          /\ pending' = IF refresh
                        THEN [pending EXCEPT ![t] = Append(@, registry[t])]
                        ELSE pending
          /\ established' = IF AuthAck(m) THEN {now} ELSE established
          /\ conn' = IF AuthAck(m) THEN [conn EXCEPT ![t] = "ready"] ELSE conn
          /\ ackOnConn' = [ackOnConn EXCEPT ![t] = @ \/ (m.msg = "auth" /\ m.sta = 1)]
          /\ readyStamp' = IF conn[t] = "authenticating" /\ AuthAck(m)
                           THEN [readyStamp EXCEPT ![t] = {now}]
                           ELSE readyStamp
          /\ ackStamp' = IF AuthAck(m) THEN [ackStamp EXCEPT ![t] = {now}] ELSE ackStamp
          /\ touchAge' = [k \in Keys |-> IF k \in written THEN 0 ELSE touchAge[k]]
          /\ beatAge' = [k \in Keys |->
                           IF k \in written THEN 0
                           ELSE IF k \in beaten /\ beatAge[k] < CACHE_MAX_AGE THEN 0
                           ELSE beatAge[k]]
    /\ UNCHANGED <<now, created, inputs, sent, subscribed, registry, bal, proc>>

\* the streaming loop subscribes the tuples of the subscription set that it
\* has not subscribed on this connection yet
SendSubscriptions(t) ==
    /\ t \in created
    /\ conn[t] = "ready"
    /\ registry[t] # subscribed[t]
    /\ subscribed' = [subscribed EXCEPT ![t] = registry[t]]
    /\ sent' = [sent EXCEPT ![t] =
                  @ \cup (IF HasSubscribeBuilder
                          THEN {SubDirective(p) : p \in registry[t] \ subscribed[t]}
                          ELSE {})]
    /\ last' = NoLast
    /\ UNCHANGED <<now, created, inputs, conn, registry, established, pending, cache,
                   ackOnConn, readyStamp, touchAge, beatAge, bal, proc,
                   ackStamp>>

\* the await of the oldest pending updateTTL call resumes
UpdateTTLPass(t) ==
    /\ t \in created
    /\ pending[t] # <<>>
    /\ cache' = updateTTL(cache, t, Head(pending[t]), now)
    /\ pending' = [pending EXCEPT ![t] = Tail(@)]
    /\ touchAge' = [k \in Keys |->
                      IF k \in KeysOf(t, Head(pending[t])) /\ touchAge[k] < CACHE_MAX_AGE
                      THEN 0 ELSE touchAge[k]]
    /\ last' = NoLast
    /\ UNCHANGED <<now, created, inputs, conn, sent, subscribed, registry, established,
                   ackOnConn, readyStamp, beatAge, bal, proc,
                   ackStamp>>

\* time passes; entries whose TTL has run out are gone
Tick ==
    /\ now < MaxTime
    /\ now' = now + 1
    /\ cache' = Unexpired(cache, now + 1)
    /\ touchAge' = [k \in Keys |-> Capped(touchAge[k] + 1)]
    /\ beatAge' = [k \in Keys |-> Capped(beatAge[k] + 1)]
    /\ last' = NoLast
    /\ UNCHANGED <<created, inputs, conn, sent, subscribed, registry, established,
                   pending, ackOnConn, readyStamp, bal, proc,
                   ackStamp>>

\* the connection is lost or closed; the next Open makes a new one
Close(t) ==
    /\ t \in created
    /\ conn[t] # "closed"
    /\ conn' = [conn EXCEPT ![t] = "closed"]
    /\ sent' = [sent EXCEPT ![t] = {}]
    /\ subscribed' = [subscribed EXCEPT ![t] = {}]
    /\ ackOnConn' = [ackOnConn EXCEPT ![t] = FALSE]
    /\ readyStamp' = [readyStamp EXCEPT ![t] = {}]
    /\ last' = NoLast
    /\ UNCHANGED <<now, created, inputs, registry, established, pending, cache, touchAge, beatAge,
                   bal, proc,
                   ackStamp>>

Next ==
    \/ \E t \in Transports, p \in Params : Register(t, p)
    \/ \E t \in Transports : Open(t)
    \/ \E t \in Transports : \E m \in inputs : Receive(t, m)
    \/ \E t \in Transports : SendSubscriptions(t)
    \/ \E t \in Transports : UpdateTTLPass(t)
    \/ Tick
    \/ \E t \in Transports : Close(t)

Spec == Init /\ [][Next]_vars

\* The message handler on its own: one frame, drawn from all the frames, is
\* sent again and again to a transport whose connection is ready
InitDecode ==
    /\ now = 0
    /\ created = {1}
    /\ inputs \in {{m} : m \in Frames}
    /\ conn = [t \in Transports |-> IF t = 1 THEN "ready" ELSE "closed"]
    /\ sent = [t \in Transports |-> IF t = 1 THEN {AuthDirective} ELSE {}]
    /\ subscribed = [t \in Transports |-> IF t = 1 THEN Params ELSE {}]
    /\ registry = [t \in Transports |-> IF t = 1 THEN Params ELSE {}]
    /\ established = {0}
    /\ ackOnConn = [t \in Transports |-> t = 1]
    /\ readyStamp = [t \in Transports |-> IF t = 1 THEN {0} ELSE {}]
    /\ pending = [t \in Transports |-> <<>>]
    /\ cache = [k \in Keys |-> NoEntry]
    /\ last = NoLast
    /\ touchAge = [k \in Keys |-> CACHE_MAX_AGE]
    /\ beatAge = [k \in Keys |-> CACHE_MAX_AGE]
    /\ bal = NoBatch
    /\ proc = ProcessUp
    /\ ackStamp = [t \in Transports |-> IF t = 1 THEN {0} ELSE {}]

NextDecode ==
    \/ \E t \in Transports : \E m \in inputs : Receive(t, m)
    \/ \E t \in Transports : UpdateTTLPass(t)

SpecDecode == InitDecode /\ [][NextDecode]_vars

\* the frames of the refresh specification: a heartbeat and a tick
RefreshFrames ==
    {Frame("sub", 1, StrRec(HeartbeatRec(TP)), Fvs({}, {}, {})),
     Frame("sub", 1, StrRec(PriceRec(EUR, USD, GBL, TP)), Fvs({110000}, {110030}, {})),
     Frame("sub", 1, StrRec(PriceRec(GBP, USD, GBL, TP)), Fvs({}, {}, {110040}))}

\* The refresh on its own, failures included: the connection of transport 1
\* is ready
InitRefresh ==
    /\ InitCommon
    /\ bal = NoBatch
    /\ created = {1}
    /\ inputs = RefreshFrames
    /\ conn = [t \in Transports |-> IF t = 1 THEN "ready" ELSE "closed"]
    /\ established = {0}
    /\ ackOnConn = [t \in Transports |-> t = 1]
    /\ readyStamp = [t \in Transports |-> IF t = 1 THEN {0} ELSE {}]
    /\ ackStamp = [t \in Transports |-> IF t = 1 THEN {0} ELSE {}]

\* the oldest pending updateTTL call fails: getAll() rejects (no entry is
\* refreshed), or setTTL throws after the entries in `done` were refreshed.
\* updateTTL catches nothing and its caller left its promise alone, so the
\* rejection is unhandled: the runtime warns and goes on, or ends the process
UpdateTTLFails(t, done, goesOn) ==
    /\ t \in created
    /\ pending[t] # <<>>
    /\ done \subseteq Head(pending[t])
    /\ done = {} \/ done # Head(pending[t])
    /\ cache' = updateTTL(cache, t, done, now)
    /\ pending' = [pending EXCEPT ![t] = Tail(@)]
    /\ touchAge' = [k \in Keys |->
                      IF k \in KeysOf(t, done) /\ touchAge[k] < CACHE_MAX_AGE
                      THEN 0 ELSE touchAge[k]]
    /\ proc' = [proc EXCEPT !.alive = goesOn, !.failedRefresh = TRUE]
    /\ last' = NoLast
    /\ UNCHANGED <<now, created, inputs, conn, sent, subscribed, registry, established,
                   ackOnConn, readyStamp, ackStamp, beatAge, bal>>

NextRefresh ==
    \/ \E t \in Transports, p \in Params : proc.alive /\ Register(t, p)
    \/ \E t \in Transports : \E m \in inputs : proc.alive /\ Receive(t, m)
    \/ \E t \in Transports : proc.alive /\ UpdateTTLPass(t)
    \/ \E t \in Transports : \E done \in SUBSET Params, goesOn \in BOOLEAN :
          proc.alive /\ UpdateTTLFails(t, done, goesOn)
    \/ proc.alive /\ Tick

SpecRefresh == InitRefresh /\ [][NextRefresh]_vars

\* the frames of the value specification: an ack, a heartbeat, two ticks of
\* different results for one tuple, a tick of another stream
ValueFrames ==
    {Frame("auth", 1, NoRec, NoFvs),
     Frame("sub", 1, StrRec(HeartbeatRec(TP)), Fvs({}, {}, {})),
     Frame("sub", 1, StrRec(PriceRec(EUR, USD, GBL, TP)), Fvs({110000}, {110030}, {})),
     Frame("sub", 1, StrRec(PriceRec(EUR, USD, GBL, TP)), Fvs({}, {}, {110040})),
     Frame("sub", 1, StrRec(PriceRec(EUR, USD, GBL, IC)), Fvs({110010}, {110030}, {}))}

\* The whole system again, with ticks of different results for one tuple
InitValues ==
    /\ InitCommon
    /\ bal = NoBatch
    /\ created = {1}
    /\ inputs = ValueFrames
    /\ conn = [t \in Transports |-> "closed"]
    /\ established = {}
    /\ ackOnConn = [t \in Transports |-> FALSE]
    /\ readyStamp = [t \in Transports |-> {}]
    /\ ackStamp = [t \in Transports |-> {}]

SpecValues == InitValues /\ [][Next]_vars

\* the frames of the two-transport specification: an ack and a tick of each
\* transport's stream
PairFrames ==
    {Frame("auth", 1, NoRec, NoFvs),
     Frame("sub", 1, StrRec(PriceRec(EUR, USD, GBL, TP)), Fvs({110000}, {110030}, {})),
     Frame("sub", 1, StrRec(PriceRec(EUR, USD, GBL, IC)), Fvs({110000}, {110030}, {}))}

\* Two transports made by generateTransport in one process (TP and ICAP)
InitPair ==
    /\ InitCommon
    /\ bal = NoBatch
    /\ created = Transports
    /\ inputs = PairFrames
    /\ conn = [t \in Transports |-> "closed"]
    /\ established = {}
    /\ ackOnConn = [t \in Transports |-> FALSE]
    /\ readyStamp = [t \in Transports |-> {}]
    /\ ackStamp = [t \in Transports |-> {}]

NextPair ==
    \/ \E t \in Transports : Open(t)
    \/ \E t \in Transports : \E m \in inputs : Receive(t, m)
    \/ Tick
    \/ \E t \in Transports : Close(t)

SpecPair == InitPair /\ [][NextPair]_vars

\* The balance endpoint on its own: one call of execute with an input drawn
\* from Inputs; no transport exists
transportVars == <<now, created, inputs, conn, sent, subscribed, registry, established,
                   pending, cache, last, ackOnConn, readyStamp, ackStamp, touchAge, beatAge,
                   proc>>

InitBalance ==
    /\ InitCommon
    /\ created = {}
    /\ inputs = {}
    /\ conn = [t \in Transports |-> "closed"]
    /\ established = {}
    /\ ackOnConn = [t \in Transports |-> FALSE]
    /\ readyStamp = [t \in Transports |-> {}]
    /\ ackStamp = [t \in Transports |-> {}]
    /\ bal \in {[NoBatch EXCEPT !.phase = "called", !.input = inp] : inp \in Inputs}

\* execute up to its await of getBalances: the input check, then every
\* callback of addresses.map runs up to its own await
Execute ==
    /\ bal.phase = "called"
    /\ IF bal.input.kind # "array" \/ bal.input.list = <<>>
       THEN bal' = [bal EXCEPT !.phase = "thrown",
                               !.out = ThrownError(400, "must be a non-empty array")]
       ELSE \E ps \in {[i \in 1..Len(bal.input.list) |->
                          getBalancesCallback(bal.input.list[i])]} :
               bal' = [bal EXCEPT !.phase = "awaiting",
                                  !.promises = ps,
                                  !.requested = {i \in 1..Len(ps) : ps[i].st = "pending"}]
    /\ UNCHANGED transportVars

\* Requester.request of entry i settles and its callback resumes
Respond(i, r) ==
    /\ i \in 1..Len(bal.promises)
    /\ bal.promises[i].st = "pending"
    /\ bal' = [bal EXCEPT !.promises[i] = getBalancesResume(@, r)]
    /\ UNCHANGED transportVars

\* Promise.all settles and execute resumes: it throws what a rejected promise
\* threw, or returns reduceResponse of the items
Settle ==
    /\ bal.phase = "awaiting"
    /\ \/ /\ \E i \in 1..Len(bal.promises) : bal.promises[i].st = "rejected"
          /\ \E i \in 1..Len(bal.promises) :
                /\ bal.promises[i].st = "rejected"
                /\ bal' = [bal EXCEPT !.phase = "thrown",
                                      !.out = ThrownError(500, bal.promises[i].error)]
       \/ /\ \A i \in 1..Len(bal.promises) : bal.promises[i].st = "fulfilled"
          /\ bal' = [bal EXCEPT
                       !.phase = "returned",
                       !.out = ReturnedData(reduceResponse(
                                  [i \in 1..Len(bal.promises) |-> bal.promises[i].item]))]
    /\ UNCHANGED transportVars

NextBalance ==
    \/ Execute
    \/ \E i \in 1..MaxBatch, r \in Responses : Respond(i, r)
    \/ Settle

SpecBalance == InitBalance /\ [][NextBalance]_vars

----------------------------------------------------------------------------
(* Properties *)

\* a frame is an accepted heartbeat of transport t: a `sub` message with
\* status 1 and value fields whose rec holds the heartbeat marker and, at
\* 22..24, the configured stream name
HeartbeatMsg(t, m) ==
    /\ m.msg = "sub" /\ m.sta = 1 /\ m.fvs.present
    /\ m.rec.kind = "string"
    /\ Includes(m.rec.str, HBHHH)
    /\ Slice(m.rec.str, 22, 24) = streamName(t)

\* the message handler has just handled a frame
Handled == last.t # 0

\* the message handler has just returned a tick
Emitted == Handled /\ last.out.kind = "return" /\ Len(last.out.ticks) = 1

\* C1: when the handler receives a heartbeat whose stream code is the
\* configured stream name, an updateTTL pass is started over the subscription
\* set as it is then, and the pass sets the TTL of the cache entry of every
\* tuple of that set to CACHE_MAX_AGE.
C1_HeartbeatRefreshesAll ==
    [][\A t \in Transports :
         /\ (last'.t = t /\ HeartbeatMsg(t, last'.frame))
                => pending'[t] = Append(pending[t], registry[t])
         /\ Len(pending'[t]) < Len(pending[t])
                => \A p \in Head(pending[t]) :
                      cache[calculateCacheKey(t, p)].val # {}
                         => cache'[calculateCacheKey(t, p)].exp = now + CACHE_MAX_AGE]_vars

\* C1 witness: a pass has just refreshed the entries of both registered
\* tuples, some time after the heartbeat that started it.
C1_Witness ==
    /\ registry[1] = Params
    /\ pending[1] = <<>>
    /\ \A k \in KeysOf(1, Params) :
          /\ cache[k].val # {} /\ cache[k].exp = now + CACHE_MAX_AGE
          /\ touchAge[k] = 0 /\ beatAge[k] > 0

\* C2: processing a heartbeat (the handler's step and the refresh pass)
\* leaves the key-to-value map of the cache as it was: no value changes and
\* no entry appears.
C2_HeartbeatKeepsValues ==
    [][\A t \in Transports :
         Len(pending'[t]) # Len(pending[t])
            => [k \in Keys |-> cache'[k].val] = [k \in Keys |-> cache[k].val]]_vars

\* C2 witness: a pass over both registered tuples has just run; one has an
\* entry, refreshed, and the other still has none.
C2_Witness ==
    /\ registry[1] = Params
    /\ pending[1] = <<>>
    /\ \E k1, k2 \in KeysOf(1, Params) :
          /\ cache[k1].val # {} /\ touchAge[k1] = 0 /\ beatAge[k1] > 0
          /\ cache[k2] = NoEntry

\* C3 as claimed: an entry is there exactly as long as the latest tick for
\* it, or the latest arrival of a matching heartbeat while its tuple is
\* registered and it had not run out, is less than CACHE_MAX_AGE ago.
C3_HeartbeatArrivalKeepsEntry ==
    \A k \in Keys : cache[k].val # {} <=> beatAge[k] < CACHE_MAX_AGE

\* C3 amended: an entry is there exactly as long as the latest tick written
\* for it, or the latest setTTL call of a refresh pass for it, is less than
\* CACHE_MAX_AGE ago.
C3_RefreshPassKeepsEntry ==
    \A k \in Keys : cache[k].val # {} <=> touchAge[k] < CACHE_MAX_AGE

\* C3 witness: an entry lives past the CACHE_MAX_AGE of its tick because a
\* refresh pass, run after the heartbeat arrived, extended it.
C3_Witness ==
    \E k \in Keys :
       /\ cache[k].val # {}
       /\ touchAge[k] < beatAge[k]
       /\ cache[k].exp > CACHE_MAX_AGE

\* C4 as claimed: a handled message whose rec, at 31..34, differs from the
\* configured stream name gives no tick, starts no refresh and does not throw.
C4_StreamMismatchIgnored ==
    (Handled /\ last.frame.rec.kind = "string"
       /\ Slice(last.frame.rec.str, 31, 34) # streamName(last.t))
    => (last.out.kind = "return" /\ last.out.ticks = <<>> /\ ~last.out.refresh)

\* C4 amended: a handled message that is no accepted heartbeat and whose rec,
\* at 31..34, differs from the configured stream name gives no tick, does not
\* throw and leaves the cache and the pending refreshes as they were.
C4_MismatchNotHeartbeatIgnored ==
    [][\A t \in Transports :
         (/\ last'.t = t
          /\ last'.frame.rec.kind = "string"
          /\ Slice(last'.frame.rec.str, 31, 34) # streamName(t)
          /\ ~HeartbeatMsg(t, last'.frame))
         => (/\ last'.out.kind = "return"
             /\ last'.out.ticks = <<>>
             /\ ~last'.out.refresh
             /\ cache' = cache
             /\ pending' = pending)]_vars

\* C4 witness: a price message of another stream, with status 1 and both
\* prices, has just been handled.
C4_Witness ==
    /\ Handled
    /\ last.frame = Frame("sub", 1, StrRec(PriceRec(EUR, USD, GBL, IC)),
                          Fvs({110000}, {110030}, {}))
    /\ last.out = Returned(<<>>, FALSE)

\* C5 as claimed: a tick emitted for a message that has MID_PRICE carries
\* MID_PRICE as its result.
C5_MidPriceVerbatim ==
    (Emitted /\ last.frame.fvs.MID_PRICE # {})
    => last.out.ticks[1].result = Val(last.frame.fvs.MID_PRICE)

\* C6 as claimed: a tick emitted for a message that has BID and ASK carries
\* their midpoint.
C6_MidpointOfBidAsk ==
    (Emitted /\ last.frame.fvs.BID # {} /\ last.frame.fvs.ASK # {})
    => 2 * last.out.ticks[1].result
          = Val(last.frame.fvs.BID) + Val(last.frame.fvs.ASK)

\* C6 amended: a tick emitted for a message that has BID and ASK and no
\* MID_PRICE carries their midpoint.
C6_MidpointWhenNoMidPrice ==
    (Emitted /\ last.frame.fvs.BID # {} /\ last.frame.fvs.ASK # {}
       /\ last.frame.fvs.MID_PRICE = {})
    => 2 * last.out.ticks[1].result
          = Val(last.frame.fvs.BID) + Val(last.frame.fvs.ASK)

\* C6 witness: bid 1.1001 and ask 1.1003 have just given the tick 1.1002.
C6_Witness ==
    /\ Emitted
    /\ last.frame.fvs = Fvs({110010}, {110030}, {})
    /\ last.out.ticks[1].result = 110020

\* C7: open() has sent the auth directive on every connection, and a
\* connection is ready only if a frame with msg 'auth' and sta 1 was received
\* on it.
C7_ReadyOnlyAfterAuthAck ==
    \A t \in Transports :
       /\ conn[t] # "closed" => AuthDirective \in sent[t]
       /\ conn[t] = "ready" => ackOnConn[t]

\* C7 witness: a connection became ready at a later time than 0, so other
\* frames could arrive before the ack.
C7_Witness ==
    conn[1] = "ready" /\ ackOnConn[1] /\ readyStamp[1] = {now} /\ now > 0

C9_TickCarriesReadyStamp ==
    Emitted
    => last.out.ticks[1].providerDataStreamEstablishedUnixMs = readyStamp[last.t]

\* C10 as claimed: the handler returns, with no tick or one, for every frame.
C10_HandlerNeverThrows ==
    Handled => (last.out.kind = "return" /\ Len(last.out.ticks) <= 1)

\* the keys at which two caches differ
Differing(c1, c2) == {k \in Keys : c1[k] # c2[k]}

C14_RefreshFireAndForget ==
    [][\A t \in Transports :
         /\ (last'.t = t /\ HeartbeatMsg(t, last'.frame))
            => /\ last'.out = Returned(<<>>, TRUE)
               /\ cache' = cache
               /\ Len(pending'[t]) = Len(pending[t]) + 1
         /\ (last'.t = t /\ pending[t] # <<>>)
            => /\ last'.out = message(t, last'.frame, now, established)
               /\ \A i \in 1..Len(last'.out.ticks) :
                     cache'[calculateCacheKey(t, last'.out.ticks[i].params)]
                        = [val |-> {last'.out.ticks[i].result},
                           exp |-> now + CACHE_MAX_AGE]
         /\ Len(pending'[t]) < Len(pending[t])
            => \A k \in Keys : cache[k].val # {} => cache'[k].val = cache[k].val]_vars

\* C14 witness: some time after a heartbeat arrived, with its pass still
\* pending, a tick for a tuple of that pass has been handled and written.
C14_Witness ==
    /\ now > 0
    /\ Emitted
    /\ pending[last.t] # <<>>
    /\ last.out.ticks[1].params \in Head(pending[last.t])
    /\ cache[calculateCacheKey(last.t, last.out.ticks[1].params)]
          = [val |-> {last.out.ticks[1].result}, exp |-> now + CACHE_MAX_AGE]
    /\ beatAge[calculateCacheKey(last.t, last.out.ticks[1].params)] = 0

\* C15 as claimed: a refresh that failed has been reported, and the process
\* goes on handling frames.
C15_FailedRefreshReported ==
    proc.failedRefresh => (proc.logged /\ proc.alive)

\* C16: the value under a key is the result of the most recent accepted
\* tick for it. Every accepted tick puts its result under its key, and the
\* value under a key changes in no other way than by an accepted tick for
\* that key or by the entry running out: no heartbeat, refresh pass, ignored
\* frame, registration or reconnect changes it.
C16_ValueIsLatestTick ==
    [][/\ \A t \in Transports :
            (last'.t = t /\ Len(last'.out.ticks) = 1)
            => cache'[calculateCacheKey(t, last'.out.ticks[1].params)].val
                  = {last'.out.ticks[1].result}
       /\ \A k \in Keys :
            cache'[k].val # cache[k].val
            => \/ /\ last'.t # 0 /\ Len(last'.out.ticks) = 1
                  /\ k = calculateCacheKey(last'.t, last'.out.ticks[1].params)
               \/ /\ cache'[k].val = {}
                  /\ now' > now /\ cache[k].exp <= now']_vars

\* C16 witness: the connection is down; the result of the last tick for the
\* tuple is still there, and a refresh pass has run on the entry since.
C16_Witness ==
    /\ conn[1] = "closed"
    /\ cache[calculateCacheKey(1, Param(EUR, USD, GBL))].val = {110040}
    /\ touchAge[calculateCacheKey(1, Param(EUR, USD, GBL))] = 0
    /\ beatAge[calculateCacheKey(1, Param(EUR, USD, GBL))] > 0

\* an ignore rule applies to the frame: it has no msg, or msg 'auth', or no
\* fvs, or no rec, or a sta other than 1
IgnoreRule(m) ==
    \/ m.msg = "absent" \/ m.msg = "auth"
    \/ ~m.fvs.present
    \/ m.rec.kind = "absent"
    \/ m.sta # 1

\* C17: the ignore rules come first. A handled frame to which an ignore rule
\* applies gives no tick, starts no refresh, does not throw and leaves the
\* cache and the pending refreshes alone, whatever its rec holds.
C17_IgnoreRulesFirst ==
    [][\A t \in Transports :
         (last'.t = t /\ IgnoreRule(last'.frame))
         => /\ last'.out = Returned(<<>>, FALSE)
            /\ cache' = cache
            /\ pending' = pending]_vars

\* C17 witness: a frame with the heartbeat rec of the configured stream and
\* value fields, but status 0, has been handled and ignored.
C17_Witness ==
    /\ Handled
    /\ last.frame = Frame("sub", 0, StrRec(HeartbeatRec(streamName(last.t))),
                          Fvs({110000}, {110030}, {}))
    /\ last.out = Returned(<<>>, FALSE)
    /\ pending[last.t] = <<>>

\* C18 as claimed: a handled `sub` message with status 1, value fields and
\* the configured stream name at 31..34 of its rec gives a tick exactly if
\* MID_PRICE is a number or BID and ASK both are.
C18_TickIffUsablePrice ==
    (/\ Handled
     /\ last.frame.msg = "sub" /\ last.frame.sta = 1 /\ last.frame.fvs.present
     /\ last.frame.rec.kind = "string"
     /\ Slice(last.frame.rec.str, 31, 34) = streamName(last.t))
    => (Emitted <=> (\/ last.frame.fvs.MID_PRICE # {}
                     \/ (last.frame.fvs.BID # {} /\ last.frame.fvs.ASK # {})))

\* C19 as claimed: a handled frame whose rec holds the heartbeat marker gives
\* no tick and writes no cache value.
C19_MarkedFrameNeverTicks ==
    [][\A t \in Transports :
         (/\ last'.t = t
          /\ last'.frame.rec.kind = "string"
          /\ Includes(last'.frame.rec.str, HBHHH))
         => /\ last'.out.ticks = <<>>
            /\ [k \in Keys |-> cache'[k].val] = [k \in Keys |-> cache[k].val]]_vars

\* C19 amended: a handled frame whose rec holds the heartbeat marker and, at
\* 22..24, the configured stream name gives no tick and writes no cache
\* value: it starts a refresh pass, unless an ignore rule applies to it. A
\* marked frame whose 22..24 differ starts no refresh and goes through the
\* price rules: it gives a tick only if 31..34 hold the stream name and it has
\* a usable price.
C19_MarkedStreamFrameNeverTicks ==
    [][\A t \in Transports :
         (/\ last'.t = t
          /\ last'.frame.rec.kind = "string"
          /\ Includes(last'.frame.rec.str, HBHHH))
         => /\ Slice(last'.frame.rec.str, 22, 24) = streamName(t)
               => /\ last'.out.ticks = <<>>
                  /\ [k \in Keys |-> cache'[k].val] = [k \in Keys |-> cache[k].val]
                  /\ last'.out.refresh <=> ~IgnoreRule(last'.frame)
            /\ Slice(last'.frame.rec.str, 22, 24) # streamName(t)
               => /\ ~last'.out.refresh
                  /\ pending' = pending
                  /\ last'.out.ticks # <<>>
                     => /\ Slice(last'.frame.rec.str, 31, 34) = streamName(t)
                        /\ \/ last'.frame.fvs.MID_PRICE # {}
                           \/ (last'.frame.fvs.BID # {} /\ last'.frame.fvs.ASK # {})]_vars

\* C19 witness: the heartbeat of the configured stream, carrying BID and ASK,
\* has been handled: a refresh is pending, no tick, nothing in the cache.
C19_Witness ==
    /\ Handled
    /\ last.frame = Frame("sub", 1, StrRec(HeartbeatRec(streamName(last.t))),
                          Fvs({110000}, {110030}, {}))
    /\ last.out = Returned(<<>>, TRUE)
    /\ pending[last.t] # <<>>
    /\ \A k \in Keys : cache[k] = NoEntry

\* C20 as claimed: with two transports in the process, every tick carries
\* the time of the latest auth-ack of the transport that emitted it.
C20_TickCarriesOwnAckStamp ==
    (Emitted /\ created = Transports)
    => last.out.ticks[1].providerDataStreamEstablishedUnixMs = ackStamp[last.t]

\* the call of execute had a non-empty list as its input and is over
BatchOver ==
    /\ bal.input.kind = "array" /\ bal.input.list # <<>>
    /\ bal.phase \in {"returned", "thrown"}

\* C11 as claimed: no entry's failure aborts the batch: a call with a
\* non-empty list returns, with a result for every entry, and every entry
\* that did not get a looked-up balance is reported with balance 0.
C11_NoItemAbortsBatch ==
    BatchOver
    => /\ bal.phase = "returned"
       /\ Len(bal.out.data.result) = Len(bal.input.list)
       /\ \A i \in 1..Len(bal.input.list) :
             bal.out.data.responses[i] = {} => bal.out.data.result[i].balance = 0

Defaulted(a) ==
    Address(a.address, IF a.coin = "" THEN "btc" ELSE a.coin,
            IF a.chain = "" THEN "mainnet" ELSE a.chain)

\* C21: when execute returns, its input was a non-empty list, the status is
\* 200, data.result and data.responses have the length of the list, and entry
\* i describes address i of the list: its address, coin and chain (as given,
\* or with the defaults), with the looked-up balance and its response if a
\* request was made for it, balance 0 and no response otherwise. An input
\* that is missing, no array or empty is thrown out with status 400 and no
\* request is made.
C21_ResultKeepsLengthAndOrder ==
    /\ bal.phase = "returned"
       => /\ bal.input.kind = "array" /\ bal.input.list # <<>>
          /\ bal.out.kind = "return" /\ bal.out.status = 200
          /\ Len(bal.out.data.result) = Len(bal.input.list)
          /\ Len(bal.out.data.responses) = Len(bal.input.list)
          /\ \A i \in 1..Len(bal.input.list) :
                /\ bal.out.data.result[i].address = bal.input.list[i].address
                /\ IF i \in bal.requested
                   THEN /\ bal.out.data.result[i].coin = Defaulted(bal.input.list[i]).coin
                        /\ bal.out.data.result[i].chain = Defaulted(bal.input.list[i]).chain
                        /\ bal.out.data.responses[i] = {bal.out.data.result[i].balance}
                   ELSE /\ bal.out.data.result[i] = Account(bal.input.list[i], 0)
                        /\ bal.out.data.responses[i] = {}
    /\ (bal.phase # "called" /\ (bal.input.kind # "array" \/ bal.input.list = <<>>))
       => /\ bal.phase \in {"idle", "thrown"}
          /\ bal.phase = "thrown" => (bal.out.kind = "throw" /\ bal.out.status = 400)
          /\ bal.requested = {} /\ bal.promises = <<>>

\* C21 witness: execute has returned for a list of two different addresses
\* that were both looked up, with different balances.
C21_Witness ==
    /\ bal.phase = "returned"
    /\ bal.input.list = <<Address("a1", "eth", "testnet"), Address("a1", "btc", "")>>
    /\ bal.requested = {1, 2}
    /\ bal.out.status = 200
    /\ bal.out.data.result = <<Account(Address("a1", "eth", "testnet"), 3),
                               Account(Address("a1", "btc", "mainnet"), 8)>>
    /\ bal.out.data.responses = <<{3}, {8}>>

\* the entry is one getBalances warns about: no address, a coin that is not
\* supported, or a chain that is neither 'mainnet' nor 'testnet'
WarnedEntry(a) ==
    \/ a.address = ""
    \/ Defaulted(a).coin \notin {"btc", "eth"}
    \/ Defaulted(a).chain \notin {"mainnet", "testnet"}

\* the entries of the list have gone through the callback of getBalances
Mapped == bal.promises # <<>>

====
